---- MODULE Spec2Model ----
(***************************************************************************)
(* Model of smeargle.py: the Image pixel buffer, its shape rasterizers and *)
(* the PNG container encoder.                                              *)
(*                                                                         *)
(* A pixel is a tuple of channel values, the image data a sequence of rows *)
(* (Python index k is TLA+ index k+1).  Every operation is one action; its *)
(* Python exception, if any, is recorded in outcome.                       *)
(***************************************************************************)
EXTENDS Integers, Sequences, FiniteSets, TLC

VARIABLES
    pc,       \* "start": no Image yet; "image": an Image object exists
    width,    \* Image.width
    height,   \* Image.height
    data,     \* Image._data
    call,     \* the last call made: [op, pts, nums, color]
    outcome,  \* "ok" or the name of the exception the last call raised
    prev,     \* Image._data as it was when the last call started
    hist,     \* per completed shape call: pixels its predicate covers, color
    ncalls,   \* number of calls made on the image so far
    stream,   \* the argument _idat handed to _compress_data, <<>> if none
    png       \* PNG._data of the last PNG object built, <<>> if none

vars == <<pc, width, height, data, call, outcome, prev, hist, ncalls, stream, png>>

----------------------------------------------------------------------------
(* Bounds of the exploration *)

MaxDim == 2         \* Image(w, h) is tried with w, h in MinDim..MaxDim
MaxDraws == 1       \* single-pixel draw calls made before encoding
MaxCalls == 2       \* shape calls made on one image
MaxCoord == 2       \* rectangle corners: MinCoord..MaxCoord, line endpoints: 0..MaxCoord
MaxRect == 3        \* rectangle length and height: 0..MaxRect
MaxCenter == 5      \* circle centres: MinCoord..MaxCenter
MaxRadius == 1      \* circle radius: 0..MaxRadius
MaxThickness == 2   \* line thickness: 0..MaxThickness
MaxTriCoord == 2    \* triangle vertices: x in 0..MaxTriCoord
MaxTriRow == 1      \* triangle vertices: y in 0..MaxTriRow
MaxSmall == 1       \* coordinates and extents of the mixed-shape runs: 0..MaxSmall

MinDim == 0 - 1
MinCoord == 0 - 1

----------------------------------------------------------------------------
(* Colours *)

RED == <<255, 0, 0, 255>>
GREEN == <<0, 255, 0, 255>>
BLANK == <<0, 0, 0, 0>>
\* the Pixel type alias is a 3-tuple: a colour a caller may pass as well
RGB_RED == <<255, 0, 0>>

Vec2(x, y) == [x |-> x, y |-> y]

NoCall == [op |-> "none", pts |-> <<>>, nums |-> <<>>, color |-> BLANK]
MkCall(op, pts, nums, color) == [op |-> op, pts |-> pts, nums |-> nums, color |-> color]

----------------------------------------------------------------------------
(* Image *)

\* len(range(n))
RangeLen(n) == IF n > 0 THEN n ELSE 0

\* Image.__init__ with data = None
NewData(w, h) == [i \in 1..RangeLen(h) |-> [j \in 1..RangeLen(w) |-> BLANK]]

\* Python list indexing: the TLA+ index list[k] refers to, 0 for IndexError
PyIndex(n, k) ==
    IF k >= 0 /\ k < n THEN k + 1
    ELSE IF k < 0 /\ k >= 0 - n THEN n + k + 1
    ELSE 0

\* draw that leaves a pixel already painted as it is
draw_unpainted_only(d, y, x, color) ==
    LET r == PyIndex(Len(d), y) IN
    IF r = 0 THEN [err |-> "IndexError", data |-> d]
    ELSE LET c == PyIndex(Len(d[r]), x) IN
         IF c = 0 THEN [err |-> "IndexError", data |-> d]
         ELSE IF d[r][c] # BLANK THEN [err |-> "ok", data |-> d]
         ELSE [err |-> "ok", data |-> [d EXCEPT ![r][c] = color]]

\* Image.draw: self[y][x] = color
draw(d, y, x, color) ==
    LET r == PyIndex(Len(d), y) IN
    IF r = 0 THEN [err |-> "IndexError", data |-> d]
    ELSE LET c == PyIndex(Len(d[r]), x) IN
         IF c = 0 THEN [err |-> "IndexError", data |-> d]
         ELSE [err |-> "ok", data |-> [d EXCEPT ![r][c] = color]]

\* draw_rect's test with the far edges excluded
RectMemberExclusive(pos, length, hgt, i, j) ==
    j >= pos.x /\ j < pos.x + length /\ i >= pos.y /\ i < pos.y + hgt

\* draw_rect's membership test for pixel (i, j)
RectMember(pos, length, hgt, i, j) ==
    j >= pos.x /\ j <= pos.x + length /\ i >= pos.y /\ i <= pos.y + hgt

\* draw_circle's test with the centre read as (x = column, y = row)
CircleMemberSwapped(pos, radius, i, j) ==
    (i - pos.y) * (i - pos.y) + (j - pos.x) * (j - pos.x) <= radius * radius

\* draw_circle's membership test for pixel (i, j)
CircleMember(pos, radius, i, j) ==
    (i - pos.x) * (i - pos.x) + (j - pos.y) * (j - pos.y) <= radius * radius

\* draw_line: the slope m = (p1.y - p2.y)/(p1.x - p2.x) and the intercept
\* c = p1.y - m*p1.x as exact fractions over the common denominator den
LineDen(p1, p2) == p1.x - p2.x
LineM(p1, p2) == p1.y - p2.y
LineC(p1, p2) == p1.y * LineDen(p1, p2) - LineM(p1, p2) * p1.x

\* a/den <= b/den
FracLe(a, b, den) == IF den > 0 THEN a <= b ELSE b <= a

\* draw_line's membership test for pixel (i, j):
\*   i >= m*j + c - thickness//2 and i <= m*j + c + thickness//2
LineMember(p1, p2, thickness, i, j) ==
    LET den == LineDen(p1, p2)
        mid == LineM(p1, p2) * j + LineC(p1, p2)
        half == thickness \div 2
    IN  /\ FracLe(mid - half * den, i * den, den)
        /\ FracLe(i * den, mid + half * den, den)

\* the odd part of a nonzero integer
RECURSIVE OddPart(_)
OddPart(n) ==
    IF n < 0 THEN OddPart(0 - n)
    ELSE IF n % 2 = 0 THEN OddPart(n \div 2) ELSE n

\* the slope is a dyadic rational, so the float arithmetic of draw_line on
\* small integers is exact and the fractions above compute what it computes
ExactSlope(p1, p2) ==
    p1.x # p2.x => (p1.y - p2.y) % OddPart(p1.x - p2.x) = 0

\* draw_triangle's edgeFunction lambda
edgeFunction(a, b, p) == (b.x - a.x) * (p.y - a.y) - (b.y - a.y) * (p.x - a.x)

\* draw_triangle's test with strictly positive edge values
TriangleMemberStrict(p1, p2, p3, i, j) ==
    LET p == Vec2(j, i)
        abp == edgeFunction(p1, p2, p)
        bcp == edgeFunction(p2, p3, p)
        cap == edgeFunction(p3, p1, p)
    IN  abp > 0 /\ bcp > 0 /\ cap > 0

\* draw_triangle's membership test for pixel (i, j)
TriangleMember(p1, p2, p3, i, j) ==
    LET p == Vec2(j, i)
        abp == edgeFunction(p1, p2, p)
        bcp == edgeFunction(p2, p3, p)
        cap == edgeFunction(p3, p1, p)
    IN  abp >= 0 /\ bcp >= 0 /\ cap >= 0

\* the membership test of a shape call
Member(cl, i, j) ==
    CASE cl.op = "draw_rect" -> RectMember(cl.pts[1], cl.nums[1], cl.nums[2], i, j)
      [] cl.op = "draw_circle" -> CircleMember(cl.pts[1], cl.nums[1], i, j)
      [] cl.op = "draw_line" -> LineMember(cl.pts[1], cl.pts[2], cl.nums[1], i, j)
      [] cl.op = "draw_triangle" -> TriangleMember(cl.pts[1], cl.pts[2], cl.pts[3], i, j)
      [] OTHER -> FALSE

\* the inner loop of the scan every shape shares, row i from column j on:
\*   for j in range(len(self[i])): if <member>: self.draw(i, j, color)
RECURSIVE ScanRow(_, _, _, _)
ScanRow(d, cl, i, j) ==
    IF j >= Len(d[i + 1]) THEN [err |-> "ok", data |-> d]
    ELSE IF Member(cl, i, j)
         THEN LET w == draw(d, i, j, cl.color) IN
              IF w.err # "ok" THEN w ELSE ScanRow(w.data, cl, i, j + 1)
         ELSE ScanRow(d, cl, i, j + 1)

\* the outer loop, from row i on: for i in range(len(self)): ...
RECURSIVE Scan(_, _, _)
Scan(d, cl, i) ==
    IF i >= Len(d) THEN [err |-> "ok", data |-> d]
    ELSE LET w == ScanRow(d, cl, i, 0) IN
         IF w.err # "ok" THEN w ELSE Scan(w.data, cl, i + 1)

\* Image.draw_rect, draw_circle, draw_triangle
draw_rect(d, cl) == Scan(d, cl, 0)
draw_circle(d, cl) == Scan(d, cl, 0)
draw_triangle(d, cl) == Scan(d, cl, 0)

\* draw_line that paints a vertical endpoint pair as a column band
draw_line_column(d, cl) ==
    IF cl.pts[1].x - cl.pts[2].x = 0
    THEN Scan(d, [cl EXCEPT !.op = "draw_rect",
                            !.pts = <<Vec2(cl.pts[1].x, 0)>>,
                            !.nums = <<cl.nums[1], Len(d)>>], 0)
    ELSE Scan(d, cl, 0)

\* Image.draw_line: the slope is computed before the scan
draw_line(d, cl) ==
    IF cl.pts[1].x - cl.pts[2].x = 0
    THEN [err |-> "ZeroDivisionError", data |-> d]
    ELSE Scan(d, cl, 0)

\* the pixel addresses (row, col) of the image data
Pixels(d) == UNION {{<<i, j>> : j \in 0..(Len(d[i + 1]) - 1)} : i \in 0..(Len(d) - 1)}

\* the pixels the membership test of a call covers; none if the call raised
Cover(d, cl, err) ==
    IF err # "ok" THEN {} ELSE {q \in Pixels(d) : Member(cl, q[1], q[2])}

----------------------------------------------------------------------------
(* PNG *)

\* b'\x89PNG\r\n\x1A\n'
Signature == <<137, 80, 78, 71, 13, 10, 26, 10>>
IHDR == <<73, 72, 68, 82>>
IDAT == <<73, 68, 65, 84>>
IEND == <<73, 69, 78, 68>>

\* struct.pack('>I', n) and struct.pack('B', n)
PackI(n) == <<(n \div 16777216) % 256, (n \div 65536) % 256, (n \div 256) % 256, n % 256>>
PackB(n) == <<n % 256>>

\* zlib.crc32 and zlib.compress are library code: any checksum, any payload.
\* The values the model lets them return.
Crc32Values == {0, 305419896}
CompressValues == {<<120, 156, 3, 0, 0, 0, 0, 1>>,
                   <<120, 156, 73, 69, 78, 68, 0, 0, 0, 0, 1, 2>>}
\* a checksum other than crc, for a chunk other than the one crc belongs to
Crc32Flip(crc) == CHOOSE v \in Crc32Values : v # crc

\* _gen_chunk whose length field counts the type tag too
_gen_chunk_tagged_len(chunk_type, d, crc) ==
    PackI(Len(d) + 4) \o chunk_type \o d \o PackI(crc)

\* PNG._gen_chunk, crc being what _checksum(chunk_type, d) returned
_gen_chunk(chunk_type, d, crc) == PackI(Len(d)) \o chunk_type \o d \o PackI(crc)

\* PNG._ihdr: struct.pack('>2I5B', width, height, bit_depth, color_type, 0, 0, 0)
_ihdr(w, h, bit_depth, color_type) ==
    PackI(w) \o PackI(h) \o PackB(bit_depth) \o PackB(color_type)
        \o PackB(0) \o PackB(0) \o PackB(0)

\* ColorType.RGBA.value
RGBA == 6

\* value for pixel in row for value in pixel
RECURSIVE FlattenRow(_)
FlattenRow(row) ==
    IF row = <<>> THEN <<>> ELSE Head(row) \o FlattenRow(Tail(row))

\* _encode with the filter byte after the row
RECURSIVE _encode_filter_last(_)
_encode_filter_last(img) ==
    IF img = <<>> THEN <<>>
    ELSE FlattenRow(Head(img)) \o <<0>> \o _encode_filter_last(Tail(img))

\* PNG._encode
RECURSIVE _encode(_)
_encode(img) ==
    IF img = <<>> THEN <<>>
    ELSE <<0>> \o FlattenRow(Head(img)) \o _encode(Tail(img))

\* PNG.__init__ that asserts after the signature is in place
PngInitLateAssert(img, z, crc) ==
    IF Len(img) > 0
    THEN [err |-> "ok", stream |-> _encode(img),
          data |-> Signature
              \o _gen_chunk(IHDR, _ihdr(Len(img[1]), Len(img), 8, RGBA), crc)
              \o _gen_chunk(IDAT, z, Crc32Flip(crc))
              \o _gen_chunk(IEND, <<>>, crc)]
    ELSE [err |-> "AssertionError", stream |-> <<>>, data |-> Signature]

\* PNG.__init__: the assertion, then the four parts; z is what _compress_data
\* returned for the stream, crc and Crc32Flip(crc) what _checksum returned.
\* data is the PNG's _data, <<>> if the constructor raised.
PngInit(img, z, crc) ==
    IF Len(img) > 0
    THEN [err |-> "ok", stream |-> _encode(img),
          data |-> Signature
              \o _gen_chunk(IHDR, _ihdr(Len(img[1]), Len(img), 8, RGBA), crc)
              \o _gen_chunk(IDAT, z, Crc32Flip(crc))
              \o _gen_chunk(IEND, <<>>, crc)]
    ELSE [err |-> "AssertionError", stream |-> <<>>, data |-> <<>>]

----------------------------------------------------------------------------
(* Actions *)

\* Image(w, h)
Create(w, h) ==
    /\ pc = "start"
    /\ pc' = "image"
    /\ width' = w
    /\ height' = h
    /\ data' = NewData(w, h)
    /\ call' = MkCall("Image", <<>>, <<w, h>>, BLANK)
    /\ outcome' = "ok"
    /\ prev' = <<>>
    /\ hist' = <<>>
    /\ ncalls' = 0
    /\ UNCHANGED <<stream, png>>

\* img.draw(y, x, color)
Draw(y, x, color) ==
    /\ pc = "image"
    /\ LET r == draw(data, y, x, color) IN
        /\ data' = r.data
        /\ outcome' = r.err
    /\ prev' = data
    /\ call' = MkCall("draw", <<>>, <<y, x>>, color)
    /\ ncalls' = ncalls + 1
    /\ UNCHANGED <<pc, width, height, hist, stream, png>>

\* the state change of a shape call cl whose method returned r
ShapeCall(cl, r) ==
    /\ pc = "image"
    /\ data' = r.data
    /\ outcome' = r.err
    /\ prev' = data
    /\ call' = cl
    /\ hist' = Append(hist, [cover |-> Cover(data, cl, r.err), color |-> cl.color])
    /\ ncalls' = ncalls + 1
    /\ UNCHANGED <<pc, width, height, stream, png>>

\* img.draw_rect(pos, length, hgt, color)
DrawRect(pos, length, hgt, color) ==
    LET cl == MkCall("draw_rect", <<pos>>, <<length, hgt>>, color) IN
    ShapeCall(cl, draw_rect(data, cl))

\* img.draw_circle(pos, radius, color)
DrawCircle(pos, radius, color) ==
    LET cl == MkCall("draw_circle", <<pos>>, <<radius>>, color) IN
    ShapeCall(cl, draw_circle(data, cl))

\* img.draw_line(p1, p2, thickness, color)
DrawLine(p1, p2, thickness, color) ==
    LET cl == MkCall("draw_line", <<p1, p2>>, <<thickness>>, color) IN
    ShapeCall(cl, draw_line(data, cl))

\* img.draw_triangle(p1, p2, p3, color)
DrawTriangle(p1, p2, p3, color) ==
    LET cl == MkCall("draw_triangle", <<p1, p2, p3>>, <<>>, color) IN
    ShapeCall(cl, draw_triangle(data, cl))

\* png = PNG(img)
Encode ==
    /\ pc = "image"
    /\ pc' = "encoded"
    /\ call' = MkCall("PNG", <<>>, <<>>, BLANK)
    /\ prev' = data
    /\ \E z \in CompressValues, crc \in Crc32Values :
           LET r == PngInit(data, z, crc) IN
               /\ outcome' = r.err
               /\ stream' = r.stream
               /\ png' = r.data
    /\ UNCHANGED <<width, height, data, hist, ncalls>>

----------------------------------------------------------------------------
(* Specifications *)

Dims == MinDim..MaxDim
Index == (MinDim - MaxDim)..MaxDim
Colors == {RED, GREEN}
PointsOf(S) == {Vec2(x, y) : x \in S, y \in S}
Coord == MinCoord..MaxCoord

InitStart ==
    /\ pc = "start"
    /\ width = 0
    /\ height = 0
    /\ data = <<>>
    /\ call = NoCall
    /\ outcome = "ok"
    /\ prev = <<>>
    /\ hist = <<>>
    /\ ncalls = 0
    /\ stream = <<>>
    /\ png = <<>>

\* the state after img = Image(w, h)
InitImage(w, h) ==
    /\ pc = "image"
    /\ width = w
    /\ height = h
    /\ data = NewData(w, h)
    /\ call = MkCall("Image", <<>>, <<w, h>>, BLANK)
    /\ outcome = "ok"
    /\ prev = <<>>
    /\ hist = <<>>
    /\ ncalls = 0
    /\ stream = <<>>
    /\ png = <<>>

\* construction, single-pixel writes and encoding
Init == InitStart

Next ==
    \/ \E w \in Dims, h \in Dims : Create(w, h)
    \/ /\ ncalls < MaxDraws
       /\ \E y \in Index, x \in Index, color \in {RED, RGB_RED} : Draw(y, x, color)
    \/ Encode

Spec == Init /\ [][Next]_vars

\* rectangles on a 3 x 2 and on a 4 x 4 image
InitRect == InitImage(3, 2) \/ InitImage(4, 4)

NextRect ==
    /\ ncalls < MaxCalls
    /\ \E pos \in PointsOf(Coord), length \in 0..MaxRect, hgt \in 0..MaxRect, color \in Colors :
        DrawRect(pos, length, hgt, color)

SpecRect == InitRect /\ [][NextRect]_vars

\* circles on a 3 x 2 and on a 10 x 10 image
InitCircle == InitImage(3, 2) \/ InitImage(10, 10)

NextCircle ==
    /\ ncalls < MaxCalls
    /\ \E pos \in PointsOf(MinCoord..MaxCenter), radius \in 0..MaxRadius, color \in Colors :
        DrawCircle(pos, radius, color)

SpecCircle == InitCircle /\ [][NextCircle]_vars

\* lines on a 3 x 2 image
InitLine == InitImage(3, 2)

NextLine ==
    /\ ncalls < MaxCalls
    /\ \E p1 \in PointsOf(0..MaxCoord), p2 \in PointsOf(0..MaxCoord), thickness \in 0..MaxThickness,
       color \in Colors :
        /\ ExactSlope(p1, p2)
        /\ DrawLine(p1, p2, thickness, color)

SpecLine == InitLine /\ [][NextLine]_vars

\* triangles on a 2 x 2 image
InitTriangle == InitImage(2, 2)
TriPoints == {Vec2(x, y) : x \in 0..MaxTriCoord, y \in 0..MaxTriRow}

NextTriangle ==
    /\ ncalls < MaxCalls
    /\ \E p1 \in TriPoints, p2 \in TriPoints, p3 \in TriPoints, color \in Colors :
           DrawTriangle(p1, p2, p3, color)

SpecTriangle == InitTriangle /\ [][NextTriangle]_vars

\* all four shapes, any order, on a 3 x 2 image
Small == 0..MaxSmall
InitShapes == InitImage(3, 2)

NextShapes ==
    \/ /\ ncalls < MaxCalls
       /\ \E pos \in PointsOf(Small), length \in Small, hgt \in Small, color \in Colors :
              DrawRect(pos, length, hgt, color)
    \/ /\ ncalls < MaxCalls
       /\ \E pos \in PointsOf(Small), radius \in Small, color \in Colors :
              DrawCircle(pos, radius, color)
    \/ /\ ncalls < MaxCalls
       /\ \E p1 \in PointsOf(Small), p2 \in PointsOf(Small), thickness \in {0, 2},
             color \in Colors :
              /\ ExactSlope(p1, p2)
              /\ DrawLine(p1, p2, thickness, color)
    \/ /\ ncalls < MaxCalls
       /\ \E p1 \in PointsOf(Small), p2 \in PointsOf(Small), p3 \in PointsOf(Small),
             color \in Colors :
              DrawTriangle(p1, p2, p3, color)

SpecShapes == InitShapes /\ [][NextShapes]_vars

----------------------------------------------------------------------------
(* Properties *)

\* the pixel at Python address (i, j)
PixelAt(d, i, j) == d[i + 1][j + 1]
InCanvas(d, i, j) == <<i, j>> \in Pixels(d)

\* C1: Image(width, height) with width <= 0 or height <= 0 raises and leaves no
\* canvas; no canvas has zero rows or a zero-length row.
C1_InvalidDimensionsRejected ==
    /\ (call.op = "Image" /\ (call.nums[1] <= 0 \/ call.nums[2] <= 0))
           => (outcome # "ok" /\ pc # "image")
    /\ pc = "image" => (Len(data) > 0 /\ \A r \in 1..Len(data) : Len(data[r]) > 0)

\* C2: draw(row, col, color) with row outside [0, H) or col outside [0, W)
\* raises an out-of-bounds error and leaves every pixel unchanged.
C2_OutOfBoundsRejected ==
    (call.op = "draw"
        /\ ~(call.nums[1] \in 0..(Len(prev) - 1) /\ call.nums[2] \in 0..(RangeLen(width) - 1)))
    => (outcome = "IndexError" /\ data = prev)

\* the colour of the last entry of h that covers pixel q, BLANK if none does
LastColor(h, q) ==
    LET ks == {k \in 1..Len(h) : q \in h[k].cover} IN
    IF ks = {} THEN BLANK
    ELSE h[CHOOSE k \in ks : \A l \in ks : l <= k].color

\* C3: after any sequence of shape calls on a fresh canvas every pixel holds the
\* colour of the last call whose membership test covers it, (0,0,0,0) if none.
C3_LastWriteWins ==
    pc = "image" =>
        \A q \in Pixels(data) : PixelAt(data, q[1], q[2]) = LastColor(hist, q)

C3_Witness ==
    /\ Len(hist) = 2
    /\ hist[1].color # hist[2].color
    /\ hist[1].cover \cap hist[2].cover # {}
    /\ hist[1].cover \ hist[2].cover # {}
    /\ Pixels(data) \ (hist[1].cover \cup hist[2].cover) # {}

\* C4: after draw_rect(Vec2(x, y), L, H, C) every canvas pixel (row, col) with
\* x <= col <= x+L and y <= row <= y+H is C and every other pixel is as before;
\* draw_rect(Vec2(0,0), 3, 3, C) on a 4 x 4 canvas makes all 16 pixels C.
C4_RectBox ==
    call.op = "draw_rect" =>
        LET x == call.pts[1].x
            y == call.pts[1].y
            L == call.nums[1]
            H == call.nums[2]
        IN  /\ outcome = "ok"
            /\ Pixels(data) = Pixels(prev)
            /\ \A q \in Pixels(data) :
                   IF x <= q[2] /\ q[2] <= x + L /\ y <= q[1] /\ q[1] <= y + H
                   THEN PixelAt(data, q[1], q[2]) = call.color
                   ELSE PixelAt(data, q[1], q[2]) = PixelAt(prev, q[1], q[2])
            /\ (width = 4 /\ height = 4 /\ x = 0 /\ y = 0 /\ L = 3 /\ H = 3)
                   => /\ Cardinality(Pixels(data)) = 16
                      /\ \A i \in 0..3, j \in 0..3 : PixelAt(data, i, j) = call.color

C4_Witness ==
    /\ call.op = "draw_rect"
    /\ \E q \in Pixels(data) :
           /\ ~RectMember(call.pts[1], call.nums[1], call.nums[2], q[1], q[2])
           /\ PixelAt(data, q[1], q[2]) \notin {BLANK, call.color}
    /\ \E q \in Pixels(data) :
           /\ q[2] = call.pts[1].x + call.nums[1]
           /\ q[1] = call.pts[1].y + call.nums[2]
           /\ PixelAt(prev, q[1], q[2]) # call.color

\* C5: after draw_circle(center, radius, C) the pixels (row, col) with
\* (row-center.x)^2 + (col-center.y)^2 <= radius^2 are C and every other pixel
\* is as before; draw_circle(Vec2(5,5), 0, C) on a 10 x 10 canvas writes
\* exactly pixel (5,5).
C5_CircleDisc ==
    call.op = "draw_circle" =>
        LET cx == call.pts[1].x
            cy == call.pts[1].y
            rad == call.nums[1]
        IN  /\ outcome = "ok"
            /\ Pixels(data) = Pixels(prev)
            /\ \A q \in Pixels(data) :
                   IF (q[1] - cx) * (q[1] - cx) + (q[2] - cy) * (q[2] - cy) <= rad * rad
                   THEN PixelAt(data, q[1], q[2]) = call.color
                   ELSE PixelAt(data, q[1], q[2]) = PixelAt(prev, q[1], q[2])
            /\ (width = 10 /\ height = 10 /\ cx = 5 /\ cy = 5 /\ rad = 0)
                   => data = [prev EXCEPT ![6][6] = call.color]

C5_Witness ==
    /\ call.op = "draw_circle"
    /\ call.pts[1].x # call.pts[1].y
    /\ call.nums[1] > 0
    /\ \E q \in Pixels(data) :
           /\ CircleMember(call.pts[1], call.nums[1], q[1], q[2])
           /\ PixelAt(prev, q[1], q[2]) \notin {BLANK, call.color}
    /\ \E q \in Pixels(data) :
           /\ ~CircleMember(call.pts[1], call.nums[1], q[1], q[2])
           /\ PixelAt(data, q[1], q[2]) \notin {BLANK, call.color}

\* edge(a, b, p) = (b.x-a.x)(p.y-a.y) - (b.y-a.y)(p.x-a.x)
Edge(a, b, p) == (b.x - a.x) * (p.y - a.y) - (b.y - a.y) * (p.x - a.x)

\* the vertices are in the winding order of the docstring's picture
Clockwise(p1, p2, p3) == Edge(p1, p2, p3) > 0

C8_VerticalLineRaises ==
    (call.op = "draw_line" /\ call.pts[1].x = call.pts[2].x)
        => (outcome = "ZeroDivisionError" /\ data = prev)

C8_Witness ==
    /\ call.op = "draw_line"
    /\ call.pts[1].x = call.pts[2].x
    /\ call.pts[1].y # call.pts[2].y
    /\ InCanvas(data, 0, call.pts[1].x)
    /\ call.nums[1] > 1
    /\ \E q \in Pixels(data) : PixelAt(data, q[1], q[2]) \notin {BLANK, call.color}

\* the big-endian unsigned 32-bit number at b[p..p+3]
U32(b, p) == b[p] * 16777216 + b[p + 1] * 65536 + b[p + 2] * 256 + b[p + 3]

\* b[p..] read as chunks: length, type, payload, checksum; a chunk of length -1
\* stands for bytes that are no whole chunk
BadChunk == [len |-> 0 - 1, type |-> <<>>, payload |-> <<>>, crc |-> <<>>]

RECURSIVE Chunks(_, _)
Chunks(b, p) ==
    IF p > Len(b) THEN <<>>
    ELSE IF p + 11 > Len(b) THEN <<BadChunk>>
    ELSE LET n == U32(b, p) IN
         IF p + 11 + n > Len(b) THEN <<BadChunk>>
         ELSE <<[len |-> n,
                 type |-> SubSeq(b, p + 4, p + 7),
                 payload |-> SubSeq(b, p + 8, p + 7 + n),
                 crc |-> SubSeq(b, p + 8 + n, p + 11 + n)]>>
              \o Chunks(b, p + 12 + n)

\* C7: the encoding of a valid canvas is the 8-byte signature followed by exactly
\* three framed chunks: IHDR with length 13, IDAT, and last IEND with length 0.
C7_ChunkOrder ==
    (call.op = "PNG" /\ width > 0 /\ height > 0) =>
        /\ outcome = "ok"
        /\ Len(png) >= 8
        /\ SubSeq(png, 1, 8) = <<137, 80, 78, 71, 13, 10, 26, 10>>
        /\ LET cs == Chunks(png, 9) IN
               /\ Len(cs) = 3
               /\ \A k \in 1..3 : cs[k].len = Len(cs[k].payload) /\ Len(cs[k].crc) = 4
               /\ cs[1].type = <<73, 72, 68, 82>> /\ cs[1].len = 13
               /\ cs[2].type = <<73, 68, 65, 84>>
               /\ cs[3].type = <<73, 69, 78, 68>> /\ cs[3].len = 0

C7_Witness ==
    /\ call.op = "PNG"
    /\ width > 1
    /\ height > 0
    /\ width # height
    /\ Len(png) > 8
    /\ Len(Chunks(png, 9)[2].payload) > 8

\* C9: encoding a canvas with zero rows raises the assertion error and no part
\* of the output exists.
C9_EmptyImageRejected ==
    (call.op = "PNG" /\ Len(data) = 0) =>
        (outcome = "AssertionError" /\ png = <<>> /\ stream = <<>>)

C9_Witness ==
    /\ call.op = "PNG"
    /\ Len(data) = 0
    /\ width > 0

\* every pixel is a 4-channel colour
AllRGBA(d) == \A q \in Pixels(d) : Len(PixelAt(d, q[1], q[2])) = 4

\* C10: for a canvas of 4-channel pixels, with W and H the width and height of
\* the IHDR payload, the stream handed to compress has length H*(1+4W), byte 0
\* at offset r*(1+4W) and channel k of pixel (r, c) at offset r*(1+4W)+1+4c+k.
C10_ScanlineLayout ==
    (call.op = "PNG" /\ outcome = "ok" /\ AllRGBA(data)) =>
        LET W == U32(png, 17)
            H == U32(png, 21)
        IN  /\ H = height
            /\ width > 0 => W = width
            /\ Len(stream) = H * (1 + 4 * W)
            /\ \A r \in 0..(H - 1) :
                   /\ stream[r * (1 + 4 * W) + 1] = 0
                   /\ \A c \in 0..(W - 1), k \in 0..3 :
                          stream[r * (1 + 4 * W) + 1 + 4 * c + k + 1]
                              = PixelAt(data, r, c)[k + 1]

C10_Witness ==
    /\ call.op = "PNG"
    /\ outcome = "ok"
    /\ AllRGBA(data)
    /\ width = 2
    /\ height = 2
    /\ PixelAt(data, 1, 0) = RED
    /\ PixelAt(data, 0, 1) = BLANK

====
